---- MODULE Spec2Model ----
(***************************************************************************)
(* Financial-Reporting-Dashboard: the synthetic SaaS transaction generator *)
(* (src/data_generator/Financial Data Generator.py) and the CSV-to-BigQuery*)
(* loader (src/bigquery/setup/load_data_to_bigquery.py).                   *)
(*                                                                         *)
(* The two scripts never interact at run time, so each has its own         *)
(* specification: Spec (the generator) and SpecLoad (the loader).          *)
(*                                                                         *)
(* Conventions                                                             *)
(*  - a date is a day number counted from 2023-01-01 (day 0); a timestamp  *)
(*    is a number of seconds counted from 2023-01-01 00:00:00;             *)
(*  - a string the code slices or concatenates (transaction_id) is a       *)
(*    sequence of one-character strings;                                   *)
(*  - a float amount is a fixed-point number: "bp" is 1/10000 of a dollar  *)
(*    while the amount is being computed, and the stored amount (after     *)
(*    round(amount, 2)) is a whole number of cents;                        *)
(*  - a random draw is a nondeterministic choice from the set the code     *)
(*    draws from.  A run is a "random tape"; the model explores the tapes  *)
(*    that differ from a baseline tape in at most MaxVaried draws of the   *)
(*    set-up and the first pass (the draws of the retry pass and of the    *)
(*    downsampling are all explored).                                      *)
(***************************************************************************)
EXTENDS Integers, Sequences, FiniteSets, TLC

VARIABLES
    \* ---- generator (generate_synthetic_saas_data) ----
    pc,                 \* position in generate_synthetic_saas_data
    num_rows,           \* parameter num_rows
    start_date,         \* parameter start_date (day number)
    end_date,           \* parameter end_date (day number)
    customer_ids,       \* sequence of customer ids (CUST_000001 is 1, ...)
    customer_type_map,  \* customer id -> customer type
    customer_plan_map,  \* customer id -> subscription plan
    timestamps,         \* the pre-drawn timestamps, one per row
    data,               \* list of first-pass rows
    df,                 \* the DataFrame (sequence of rows in index order)
    failed_indices,     \* indices (0-based) of the Failed rows, in index order
    fpos,               \* position of the retry loop in failed_indices
    varied,             \* number of non-baseline draws made so far
    \* ---- loader (load_data_to_bigquery) ----
    lpc,                \* position in load_data_to_bigquery
    csv,                \* the file at csv_file: [exists, columns, rows, nulls]
    ldf,                \* the DataFrame read from the CSV (NoFrame before)
    warnings,           \* critical columns a null-count warning was logged for
    bq,                 \* the warehouse: [dataset, table] (table: NoTable or a row count)
    calls,              \* the warehouse client calls made by this invocation, in order
    datasetAtCheck,     \* "present"/"absent": the dataset when get_dataset was called
    job,                \* the submitted load job: NoJob or the rows it carries
    result,             \* return value: "none" (running), "True", "False"
    propagated,         \* the exception that left the function ("none" if none)
    failedStep,         \* the step of this invocation that raised ("none" if none)
    tableAtCall,        \* the destination table when this invocation started
    loads               \* number of invocations of the loader so far

gvars == <<pc, num_rows, start_date, end_date, customer_ids, customer_type_map,
           customer_plan_map, timestamps, data, df, failed_indices, fpos, varied>>
lvars == <<lpc, csv, ldf, warnings, bq, calls, datasetAtCheck, job, result,
           propagated, failedStep, tableAtCall, loads>>
vars == <<gvars, lvars>>

(***************************************************************************)
(* Bounds of the model.                                                    *)
(***************************************************************************)
\* largest end_date - start_date explored, in days
MaxDateRange == 2
\* number of draws of one run that may differ from the baseline tape
MaxVaried == 1
\* largest number of data rows of a CSV file
MaxCsvRows == 2
\* number of successive invocations of the loader
MaxLoads == 2

(***************************************************************************)
(* Generator: constants of generate_synthetic_saas_data.                   *)
(***************************************************************************)
transaction_types == <<"Subscription", "Refund", "One-Time Purchase", "Upgrade",
                       "Downgrade", "Add-on">>
subscription_plans == <<"Free", "Basic", "Pro", "Enterprise", "Custom">>

\* plan_prices in bp (1/10000 dollar): 0, 19.99, 49.99, 199.99, 499.99
plan_prices ==
    [p \in {"Free", "Basic", "Pro", "Enterprise", "Custom"} |->
        CASE p = "Free" -> 0
          [] p = "Basic" -> 199900
          [] p = "Pro" -> 499900
          [] p = "Enterprise" -> 1999900
          [] p = "Custom" -> 4999900]

categories == <<"Revenue", "Marketing Cost", "Operational Expense",
                "Infrastructure Cost", "Customer Support", "R&D", "Administrative">>
regions == <<"US", "EU", "APAC", "LATAM", "MEA">>
payment_statuses == <<"Completed", "Pending", "Failed", "Refunded", "Disputed">>
customer_types == <<"B2C", "SMB", "Mid-Market", "Enterprise">>

\* np.random.choice(['Refund', 'One-Time Purchase', 'Upgrade', 'Downgrade', 'Add-on'])
OtherTypes == <<"Refund", "One-Time Purchase", "Upgrade", "Downgrade", "Add-on">>
\* np.random.choice(['Marketing Cost', ..., 'Administrative'])
ExpenseCategories == <<"Marketing Cost", "Operational Expense", "Infrastructure Cost",
                       "Customer Support", "R&D", "Administrative">>

\* int(num_rows / 10)
RowsPerCustomer == 10
SecondsPerDay == 86400

Range(s) == {s[j] : j \in DOMAIN s}

(***************************************************************************)
(* The calendar: day number (from 2023-01-01) -> month and day of month.   *)
(* 2023 is not a leap year; the model stays within 2023 and January 2024.  *)
(***************************************************************************)
MonthLen == <<31, 28, 31, 30, 31, 30, 31, 31, 30, 31, 30, 31>>

RECURSIVE MonthDay(_, _)
\* <<month, day of month>> of the d-th day (0-based) counted from the first
\* day of month m
MonthDay(m, d) ==
    LET mm == ((m - 1) % 12) + 1
    IN  IF d < MonthLen[mm] THEN <<mm, d + 1>> ELSE MonthDay(m + 1, d - MonthLen[mm])

\* timestamp.month
MonthOf(ts) == MonthDay(1, ts \div SecondsPerDay)[1]
\* timestamp.day
DayOf(ts) == MonthDay(1, ts \div SecondsPerDay)[2]

\* date + timedelta(days=k)
PlusDays(ts, k) == ts + k * SecondsPerDay

(***************************************************************************)
(* The draws.  random.uniform(a, b) is a + (b - a) * u with u drawn from   *)
(* UDraws, in percent of the interval.                                     *)
(***************************************************************************)
UDraws == {0, 50, 100}
\* timedelta(hours=randint(8, 20), minutes=randint(0, 59), seconds=randint(0, 59)):
\* the earliest and the latest time of day, in seconds
TimeDraws == {8 * 3600, 20 * 3600 + 59 * 60 + 59}
\* random.randint(1, 7)
RetryDays == 1..7

\* random.uniform(1.0, 1.2) and random.uniform(1.1, 1.3), in percent
EomDraws == {100, 120}
DecDraws == {110, 130}
\* the start dates explored: 2023-11-24 (the range then holds days before and
\* from the 25th, outside December) and 2023-12-24 (the same, in December)
StartDates == {327, 357}
\* the values of num_rows explored: no row, no customer (int(9 / 10) = 0), and
\* two customers
NumRows == {0, 9, 20}

\* The baseline tape: each draw takes the first (lowest) value of its set,
\* except the customers' types and the rows' customers (BaseType, BaseCustomer).
BaseTime == 8 * 3600
BaseOf(S) == CHOOSE x \in S : \A y \in S : x <= y

\* The set a draw ranges over when `left` more draws may leave the baseline.
Pick(S, b, left) == IF left > 0 THEN S ELSE {b}
\* 1 when a draw left the baseline
Dev(x, b) == IF x = b THEN 0 ELSE 1

RECURSIVE KSubsets(_, _)
\* the subsets of k elements of a set S of numbers
KSubsets(S, k) ==
    IF k = 0 THEN {{}}
    ELSE UNION {{T \cup {x} : T \in KSubsets({y \in S : y > x}, k - 1)} : x \in S}

\* The vectors of n draws from {b} \cup Alts of which at most k are not b.
SparseVecs(n, b, Alts, k) ==
    UNION {{[j \in 1..n |-> IF j \in S THEN f[j] ELSE b] : f \in [S -> Alts]} :
              S \in UNION {KSubsets(1..n, c) : c \in 0..k}}
DevCount(v, b) == Cardinality({j \in DOMAIN v : v[j] # b})

\* x * m / 100 for x >= 0 in bp and a multiplier of m percent, without
\* leaving 32 bits
MulPct(x, m) == (x \div 100) * m + ((x % 100) * m) \div 100

\* random.uniform(a, b), a and b in bp
Uniform(a, b, u) == a + MulPct(b - a, u)

\* round(amount, 2): bp -> cents, half to even, sign kept
Round2(x) ==
    LET a == IF x < 0 THEN -x ELSE x
        q == a \div 100
        r == a % 100
        up == (2 * r > 100) \/ (2 * r = 100 /\ q % 2 = 1)
        c == IF up THEN q + 1 ELSE q
    IN  IF x < 0 THEN -c ELSE c

\* amount *= m, m a multiplier in percent
Scale(x, m) == IF x < 0 THEN -MulPct(-x, m) ELSE MulPct(x, m)

(***************************************************************************)
(* One row of the first pass (lines 82-155).                               *)
(***************************************************************************)
\* lines 94-101: the category of a transaction type
CategoryOf(tx_type, catDraw) ==
    IF tx_type \in {"Subscription", "One-Time Purchase", "Upgrade", "Add-on"}
    THEN "Revenue"
    ELSE IF tx_type = "Refund" THEN "Revenue"
    ELSE catDraw

\* lines 104-125: the amount before the seasonal adjustments, in bp
BaseAmount(plan, tx_type, category, u) ==
    LET base_price == plan_prices[plan]
    IN  IF category = "Revenue"
        THEN CASE tx_type = "Subscription" -> base_price
               [] tx_type = "Upgrade" -> Uniform(100000, 1000000, u)
               [] tx_type = "Add-on" -> Uniform(50000, 500000, u)
               [] tx_type = "One-Time Purchase" -> Uniform(200000, 5000000, u)
               [] tx_type = "Refund" -> -MulPct(base_price, Uniform(10, 100, u))
               [] OTHER -> -Uniform(100000, 1000000, u)
        ELSE CASE category = "Marketing Cost" -> -Uniform(100000, 50000000, u)
               [] category = "Infrastructure Cost" -> -Uniform(500000, 20000000, u)
               [] OTHER -> -Uniform(200000, 10000000, u)

\* lines 132-138: end-of-month and December adjustments
EndOfMonth(ts, tx_type) == DayOf(ts) >= 25 /\ tx_type = "Subscription"
December(ts) == MonthOf(ts) = 12

Seasonal(amount, ts, tx_type, eom, dec) ==
    LET a1 == IF EndOfMonth(ts, tx_type) THEN Scale(amount, eom) ELSE amount
    IN  IF December(ts) THEN Scale(a1, dec) ELSE a1

\* 'amount': round(amount, 2), in cents
Amount(plan, tx_type, category, ts, u, eom, dec) ==
    Round2(Seasonal(BaseAmount(plan, tx_type, category, u), ts, tx_type, eom, dec))

\* a string as a sequence of characters
REV == <<"R", "E", "V", "_">>
EXP == <<"E", "X", "P", "_">>
RETRY == <<"R", "E", "T", "R", "Y", "_">>

\* str(uuid.uuid4()).replace('-', '')[:12].upper(): twelve hexadecimal digits,
\* which the code never looks into; the block is one symbol, the token tok
Suffix(tok) == <<tok>>

\* lines 140-142
Prefix(category) == IF category = "Revenue" THEN REV ELSE EXP
TransactionId(category, tok) == Prefix(category) \o Suffix(tok)

\* MakeRow with the customer's type and plan looked up by the row's token
\* instead of its customer id
MakeRowByToken(cid, ts, tx_type, category, amount, region, status, tok) ==
    LET other == customer_ids[(tok % Len(customer_ids)) + 1]
    IN  [transaction_id |-> TransactionId(category, tok),
         timestamp |-> ts,
         customer_id |-> cid,
         amount |-> amount,
         transaction_type |-> tx_type,
         subscription_plan |-> customer_plan_map[other],
         category |-> category,
         region |-> region,
         payment_status |-> status,
         customer_type |-> customer_type_map[other]]

\* lines 144-155
MakeRow(cid, ts, tx_type, category, amount, region, status, tok) ==
    [transaction_id |-> TransactionId(category, tok),
     timestamp |-> ts,
     customer_id |-> cid,
     amount |-> amount,
     transaction_type |-> tx_type,
     subscription_plan |-> customer_plan_map[cid],
     category |-> category,
     region |-> region,
     payment_status |-> status,
     customer_type |-> customer_type_map[cid]]

(***************************************************************************)
(* Sorting.  list.sort() on the dates; DataFrame.sort_values('timestamp')  *)
(* on the rows (rows of equal timestamp keep the order they had: pandas    *)
(* promises no order among them, and nothing below depends on it).         *)
(***************************************************************************)
RECURSIVE InsertInt(_, _)
InsertInt(s, x) ==
    IF s = <<>> THEN <<x>>
    ELSE IF x < Head(s) THEN <<x>> \o s
    ELSE <<Head(s)>> \o InsertInt(Tail(s), x)

RECURSIVE SortInts(_)
\* sorted_dates.sort()
SortInts(s) == IF s = <<>> THEN <<>> ELSE InsertInt(SortInts(SubSeq(s, 1, Len(s) - 1)), s[Len(s)])

RECURSIVE InsertRow(_, _)
InsertRow(s, r) ==
    IF s = <<>> THEN <<r>>
    ELSE IF r.timestamp < Head(s).timestamp THEN <<r>> \o s
    ELSE <<Head(s)>> \o InsertRow(Tail(s), r)

RECURSIVE SortRows(_)
SortRows(s) == IF s = <<>> THEN <<>> ELSE InsertRow(SortRows(SubSeq(s, 1, Len(s) - 1)), s[Len(s)])

\* the sort left out: the rows stay in the order they have
SortByTimestampNoSort(s) == s

\* df.sort_values('timestamp').reset_index(drop=True)
SortByTimestamp(s) == SortRows(s)

(***************************************************************************)
(* Lines 26-80: parse the dates, build the customer pool, draw the         *)
(* timestamps.                                                             *)
(***************************************************************************)
\* assign_plan(ctype): the plans np.random.choice draws from
PlanChoices(ctype) ==
    CASE ctype = "B2C" -> <<"Free", "Basic", "Pro">>
      [] ctype = "SMB" -> <<"Basic", "Pro">>
      [] ctype = "Mid-Market" -> <<"Pro", "Enterprise">>
      [] OTHER -> <<"Enterprise", "Custom">>

\* int(num_rows / 10)
NumCustomers(n) == n \div RowsPerCustomer

\* The baseline tape: customer c is of the c-th type (cyclically) and holds the
\* first plan of that type; row i is bought by customer (i mod n) + 1.
BaseType(c) == customer_types[((c - 1) % Len(customer_types)) + 1]
BaseCustomer(i, ids) == ids[(i % Len(ids)) + 1]

Setup ==
    /\ pc = "start"
    /\ LET n == NumCustomers(num_rows)
           ids == 1..n
           date_range == end_date - start_date
       IN  \E ctm \in [ids -> Range(customer_types)] :
             LET d1 == Cardinality({c \in ids : ctm[c] # BaseType(c)})
             IN  /\ d1 <= MaxVaried
                 /\ \E cpm \in [ids -> Range(subscription_plans)] :
                      LET d2 == d1 + Cardinality({c \in ids : cpm[c] # PlanChoices(ctm[c])[1]})
                      IN  /\ \A c \in ids : cpm[c] \in Range(PlanChoices(ctm[c]))
                          /\ d2 <= MaxVaried
                          /\ \E days \in SparseVecs(num_rows, 0, 1..(date_range - 1), MaxVaried - d2) :
                               LET d3 == d2 + DevCount(days, 0)
                                   sorted_dates == SortInts(days)
                               IN  \E tods \in SparseVecs(num_rows, BaseTime, TimeDraws \ {BaseTime}, MaxVaried - d3) :
                                     /\ customer_ids' = [c \in ids |-> c]
                                     /\ customer_type_map' = ctm
                                     /\ customer_plan_map' = cpm
                                     /\ timestamps' = [j \in 1..num_rows |->
                                            PlusDays(start_date * SecondsPerDay, sorted_dates[j]) + tods[j]]
                                     /\ varied' = d3 + DevCount(tods, BaseTime)
    /\ data' = <<>>
    /\ pc' = "rows"
    /\ UNCHANGED <<num_rows, start_date, end_date, df, failed_indices, fpos>>
    /\ UNCHANGED lvars

(***************************************************************************)
(* Lines 82-155: one iteration of the row loop.                            *)
(***************************************************************************)
\* np.random.choice(customer_ids) raises ValueError on an empty pool
GenRowRaises ==
    /\ pc = "rows"
    /\ Len(data) < num_rows
    /\ customer_ids = <<>>
    /\ pc' = "raised"
    /\ UNCHANGED <<num_rows, start_date, end_date, customer_ids, customer_type_map,
                   customer_plan_map, timestamps, data, df, failed_indices, fpos, varied>>
    /\ UNCHANGED lvars

GenRow ==
    /\ pc = "rows"
    /\ Len(data) < num_rows
    /\ customer_ids # <<>>
    /\ LET i == Len(data)
           ts == timestamps[i + 1]
           b0 == MaxVaried - varied
       IN  \E cid \in Pick(Range(customer_ids), BaseCustomer(i, customer_ids), b0) :
           LET b1 == b0 - Dev(cid, BaseCustomer(i, customer_ids)) IN
           \E nonsub \in (IF i > 0 THEN Pick(BOOLEAN, FALSE, b1) ELSE {FALSE}) :
           LET b2 == b1 - Dev(nonsub, FALSE) IN
           \E txd \in (IF nonsub THEN Range(OtherTypes) ELSE {OtherTypes[1]}) :
           LET tx_type == IF nonsub THEN txd ELSE "Subscription" IN
           \E catd \in (IF tx_type = "Downgrade"
                         THEN Pick(Range(ExpenseCategories), ExpenseCategories[1], b2)
                         ELSE {ExpenseCategories[1]}) :
           LET b3 == b2 - Dev(catd, ExpenseCategories[1])
               category == CategoryOf(tx_type, catd) IN
           \E u \in (IF tx_type = "Subscription" THEN {BaseOf(UDraws)}
                      ELSE Pick(UDraws, BaseOf(UDraws), b3)) :
           LET b4 == b3 - Dev(u, BaseOf(UDraws)) IN
           \E region \in Pick(Range(regions), regions[1], b4) :
           LET b5 == b4 - Dev(region, regions[1]) IN
           \E status \in Pick(Range(payment_statuses), payment_statuses[1], b5) :
           LET b6 == b5 - Dev(status, payment_statuses[1]) IN
           \E eom \in (IF EndOfMonth(ts, tx_type) THEN Pick(EomDraws, BaseOf(EomDraws), b6)
                        ELSE {BaseOf(EomDraws)}) :
           LET b7 == b6 - Dev(eom, BaseOf(EomDraws)) IN
           \E dec \in (IF December(ts) THEN Pick(DecDraws, BaseOf(DecDraws), b7)
                        ELSE {BaseOf(DecDraws)}) :
           LET b8 == b7 - Dev(dec, BaseOf(DecDraws)) IN
           \E tok \in Pick({1, i + 1}, i + 1, b8) :
           LET amount == Amount(customer_plan_map[cid], tx_type, category, ts, u, eom, dec)
           IN  /\ data' = Append(data, MakeRow(cid, ts, tx_type, category, amount,
                                               region, status, tok))
               /\ varied' = MaxVaried - (b8 - Dev(tok, i + 1))
    /\ UNCHANGED <<pc, num_rows, start_date, end_date, customer_ids, customer_type_map,
                   customer_plan_map, timestamps, df, failed_indices, fpos>>
    /\ UNCHANGED lvars

(***************************************************************************)
(* Lines 157-171: the DataFrame and the retry pass.                        *)
(***************************************************************************)
\* df[df['payment_status'] == 'Failed'].index: 0-based labels, in index order
FailedIndices(s) ==
    LET F == {j \in 1..Len(s) : s[j].payment_status = "Failed"}
    IN  SortInts([j \in 1..Cardinality(F) |->
                    (CHOOSE x \in F : Cardinality({y \in F : y < x}) = j - 1) - 1])

\* lines 158-162; df['payment_status'] raises KeyError on a frame without columns
ToFrame ==
    /\ pc = "rows"
    /\ Len(data) = num_rows
    /\ df' = data
    /\ IF data = <<>>
       THEN pc' = "raised" /\ UNCHANGED failed_indices
       ELSE pc' = "retry" /\ failed_indices' = FailedIndices(data)
    /\ fpos' = 1
    /\ UNCHANGED <<num_rows, start_date, end_date, customer_ids, customer_type_map,
                   customer_plan_map, timestamps, data, varied>>
    /\ UNCHANGED lvars

\* datetime.strptime(end_date, '%Y-%m-%d'): midnight of end_date
EndInstant == end_date * SecondsPerDay

\* the range test left out
RetryInRangeAlways(retry_date) == TRUE

\* line 167: retry_date <= end_date
RetryInRange(retry_date) == retry_date <= EndInstant

\* the retry row keeps the id of the row it was copied from
RetryIdKept(id) == id

\* line 170: f"RETRY_{failed_row['transaction_id'][4:]}"
RetryId(id) == RETRY \o SubSeq(id, 5, Len(id))

\* lines 165-170: the retry row of failed_row, k days later
RetryRow(failed_row, k) ==
    [failed_row EXCEPT !.timestamp = PlusDays(failed_row.timestamp, k),
                       !.payment_status = "Completed",
                       !.transaction_id = RetryId(failed_row.transaction_id)]

\* lines 163-171: one iteration of the loop over failed_indices
RetryStep ==
    /\ pc = "retry"
    /\ fpos <= Len(failed_indices)
    /\ LET idx == failed_indices[fpos]
       IN  \E retried \in BOOLEAN : \E k \in RetryDays :
             IF retried
             THEN LET failed_row == df[idx + 1]
                      retry_date == PlusDays(failed_row.timestamp, k)
                  IN  IF RetryInRange(retry_date)
                      THEN df' = Append(df, RetryRow(failed_row, k))
                      ELSE df' = df
             ELSE df' = df
    /\ fpos' = fpos + 1
    /\ UNCHANGED <<pc, num_rows, start_date, end_date, customer_ids, customer_type_map,
                   customer_plan_map, timestamps, data, failed_indices, varied>>
    /\ UNCHANGED lvars

(***************************************************************************)
(* Lines 173-181: sort, downsample, sort, return.                          *)
(***************************************************************************)
RECURSIVE Reverse(_)
Reverse(s) == IF s = <<>> THEN <<>> ELSE Append(Reverse(Tail(s)), Head(s))

RECURSIVE Keep(_, _, _)
\* the rows of s whose positions (counted from j) are in K, in order
Keep(s, K, j) ==
    IF s = <<>> THEN <<>>
    ELSE (IF j \in K THEN <<Head(s)>> ELSE <<>>) \o Keep(Tail(s), K, j + 1)

\* df.sample(num_rows, random_state=42): the rows at the positions K, in a
\* shuffled order.  The seed fixes which rows and which order; the model takes
\* any set of num_rows positions, in index order or reversed.
Sample(s, K, rev) == IF rev THEN Reverse(Keep(s, K, 1)) ELSE Keep(s, K, 1)

\* the downsampling left out
DownsampleNever(s, n, K, rev) == s

\* lines 177-179
Downsample(s, n, K, rev) ==
    IF Len(s) > n THEN SortByTimestamp(Sample(s, K, rev)) ELSE s

Finalize ==
    /\ pc = "retry"
    /\ fpos > Len(failed_indices)
    /\ \E Dropped \in KSubsets(1..Len(df), IF Len(df) > num_rows THEN Len(df) - num_rows ELSE 0) :
       \E rev \in BOOLEAN :
         df' = Downsample(SortByTimestamp(df), num_rows, (1..Len(df)) \ Dropped, rev)
    /\ pc' = "done"
    /\ UNCHANGED <<num_rows, start_date, end_date, customer_ids, customer_type_map,
                   customer_plan_map, timestamps, data, failed_indices, fpos, varied>>
    /\ UNCHANGED lvars

(***************************************************************************)
(* The generator's specification.                                          *)
(***************************************************************************)
LoaderIdle ==
    /\ lpc = "idle"
    /\ csv = [exists |-> FALSE, columns |-> {}, rows |-> 0, nulls |-> <<>>]
    /\ ldf = [columns |-> {}, rows |-> 0 - 1, nulls |-> <<>>]
    /\ warnings = {}
    /\ bq = [dataset |-> FALSE, table |-> 0 - 1]
    /\ calls = <<>>
    /\ datasetAtCheck = "none"
    /\ job = 0 - 1
    /\ result = "none"
    /\ propagated = "none"
    /\ failedStep = "none"
    /\ tableAtCall = 0 - 1
    /\ loads = 0

GenInit ==
    /\ pc = "start"
    /\ num_rows \in NumRows
    /\ start_date \in StartDates
    /\ end_date = start_date + MaxDateRange
    /\ customer_ids = <<>>
    /\ customer_type_map = <<>>
    /\ customer_plan_map = <<>>
    /\ timestamps = <<>>
    /\ data = <<>>
    /\ df = <<>>
    /\ failed_indices = <<>>
    /\ fpos = 1
    /\ varied = 0

Init == GenInit /\ LoaderIdle

Next ==
    \/ Setup
    \/ GenRowRaises
    \/ GenRow
    \/ ToFrame
    \/ RetryStep
    \/ Finalize

Spec == Init /\ [][Next]_vars

(***************************************************************************)
(* Loader: load_data_to_bigquery(csv_file, project_id, dataset_id,         *)
(* table_id, key_path).                                                    *)
(*                                                                         *)
(* The warehouse is the BigQuery service behind the client: a dataset that *)
(* exists or not and a destination table ("none" or its row count).  Every *)
(* client call may raise; what it does when it succeeds is what the call   *)
(* and the job configuration of the code ask for.                          *)
(***************************************************************************)
\* line 60
critical_columns == <<"transaction_id", "timestamp", "customer_id", "amount">>
\* lines 77-82: the NULLABLE fields of the schema
OptionalColumns == {"transaction_type", "subscription_plan", "category", "region",
                    "payment_status", "customer_type"}
\* lines 73-76: the REQUIRED fields of the schema
RequiredFields == {"transaction_id", "timestamp", "customer_id", "amount"}
AllColumns == RequiredFields \cup OptionalColumns

\* no file, no frame, no table, no job
NoFile == [exists |-> FALSE, columns |-> {}, rows |-> 0, nulls |-> <<>>]
NoFrame == [columns |-> {}, rows |-> 0 - 1, nulls |-> <<>>]
NoTable == 0 - 1
NoJob == 0 - 1

\* The header lines explored: every column, or every column but one critical one.
ColumnSets == {AllColumns} \cup {AllColumns \ {c} : c \in Range(critical_columns)}

\* The files explored: no file, or a header and 0..MaxCsvRows rows with any number
\* of empty cells in each critical column present.
CsvFiles ==
    {NoFile} \cup
    UNION {UNION {{[exists |-> TRUE, columns |-> C, rows |-> n, nulls |-> nl] :
                     nl \in [C \cap Range(critical_columns) -> 0..n]} :
                  n \in 0..MaxCsvRows} : C \in ColumnSets}

\* The warehouse states explored before the first invocation.
Warehouses ==
    {[dataset |-> FALSE, table |-> NoTable]} \cup
    {[dataset |-> TRUE, table |-> t] : t \in {NoTable} \cup 0..MaxCsvRows}

\* What a raise can be: a GoogleCloudError, or any other Exception.
ExceptionKinds == {"GoogleCloudError", "Exception"}

\* only the first handler: except GoogleCloudError
CatchesCloudOnly(kind) == kind = "GoogleCloudError"

\* lines 133-138: except GoogleCloudError ... except Exception
Catches(kind) == kind \in {"GoogleCloudError", "Exception"}

\* a step raises: the handlers of lines 133-138 decide what leaves the function
Raise(step, kind) ==
    /\ failedStep' = step
    /\ IF Catches(kind)
       THEN result' = "False" /\ lpc' = "returned" /\ UNCHANGED propagated
       ELSE propagated' = kind /\ lpc' = "propagated" /\ UNCHANGED result

\* lines 20, 42-44: a call of load_data_to_bigquery on the file now at csv_file
LoadCall ==
    /\ lpc \in {"idle", "returned"}
    /\ loads < MaxLoads
    /\ csv' \in CsvFiles
    /\ ldf' = NoFrame
    /\ warnings' = {}
    /\ calls' = <<>>
    /\ datasetAtCheck' = "none"
    /\ job' = NoJob
    /\ result' = "none"
    /\ failedStep' = "none"
    /\ tableAtCall' = bq.table
    /\ loads' = loads + 1
    /\ lpc' = "check_file"
    /\ UNCHANGED <<bq, propagated>>
    /\ UNCHANGED gvars

\* lines 47-49
CheckFile ==
    /\ lpc = "check_file"
    /\ IF ~csv.exists
       THEN result' = "False" /\ lpc' = "returned"
       ELSE lpc' = "read" /\ UNCHANGED result
    /\ UNCHANGED <<csv, ldf, warnings, bq, calls, datasetAtCheck, job, propagated,
                   failedStep, tableAtCall, loads>>
    /\ UNCHANGED gvars

\* lines 53-57: pd.read_csv
ReadCsv ==
    /\ lpc = "read"
    /\ \/ /\ ldf' = [columns |-> csv.columns, rows |-> csv.rows, nulls |-> csv.nulls]
          /\ lpc' = "validate"
          /\ UNCHANGED <<result, propagated, failedStep>>
       \/ /\ Raise("read_csv", "Exception")
          /\ UNCHANGED ldf
    /\ UNCHANGED <<csv, warnings, bq, calls, datasetAtCheck, job, tableAtCall, loads>>
    /\ UNCHANGED gvars

\* a validation that also reports the critical columns the frame lacks
NullWarningsAndAbsent(frame) ==
    {col \in Range(critical_columns) :
        col \notin frame.columns \/ frame.nulls[col] > 0}

\* lines 60-64: the critical columns a null-count warning is logged for
NullWarnings(frame) ==
    {col \in Range(critical_columns) : col \in frame.columns /\ frame.nulls[col] > 0}

Validate ==
    /\ lpc = "validate"
    /\ warnings' = NullWarnings(ldf)
    /\ lpc' = "parse_timestamp"
    /\ UNCHANGED <<csv, ldf, bq, calls, datasetAtCheck, job, result, propagated,
                   failedStep, tableAtCall, loads>>
    /\ UNCHANGED gvars

\* lines 67-69: pd.to_datetime on the timestamp column, when there is one
ParseTimestamp ==
    /\ lpc = "parse_timestamp"
    /\ \/ /\ lpc' = "client"
          /\ UNCHANGED <<result, propagated, failedStep>>
       \/ /\ "timestamp" \in ldf.columns
          /\ Raise("to_datetime", "Exception")
    /\ UNCHANGED <<csv, ldf, warnings, bq, calls, datasetAtCheck, job, tableAtCall, loads>>
    /\ UNCHANGED gvars

\* lines 86-91: bigquery.Client.from_service_account_json(key_path)
InitClient ==
    /\ lpc = "client"
    /\ \/ /\ lpc' = "get_dataset"
          /\ UNCHANGED <<result, propagated, failedStep>>
       \/ \E kind \in ExceptionKinds : Raise("client", kind)
    /\ UNCHANGED <<csv, ldf, warnings, bq, calls, datasetAtCheck, job, tableAtCall, loads>>
    /\ UNCHANGED gvars

\* lines 94-98: client.get_dataset; any Exception leads to the creation
GetDataset ==
    /\ lpc = "get_dataset"
    /\ calls' = Append(calls, "get_dataset")
    /\ datasetAtCheck' = IF bq.dataset THEN "present" ELSE "absent"
    /\ \/ /\ bq.dataset
          /\ lpc' = "submit"
       \/ \* NotFound when the dataset is absent; any service error otherwise
          lpc' = "create_dataset"
    /\ UNCHANGED <<csv, ldf, warnings, bq, job, result, propagated, failedStep,
                   tableAtCall, loads>>
    /\ UNCHANGED gvars

\* lines 99-101: client.create_dataset (Conflict when the dataset exists)
CreateDataset ==
    /\ lpc = "create_dataset"
    /\ calls' = Append(calls, "create_dataset")
    /\ \/ /\ ~bq.dataset
          /\ bq' = [bq EXCEPT !.dataset = TRUE]
          /\ lpc' = "submit"
          /\ UNCHANGED <<result, propagated, failedStep>>
       \/ /\ bq.dataset
          /\ Raise("create_dataset", "GoogleCloudError")
          /\ UNCHANGED bq
       \/ /\ ~bq.dataset
          /\ \E kind \in ExceptionKinds : Raise("create_dataset", kind)
          /\ UNCHANGED bq
    /\ UNCHANGED <<csv, ldf, warnings, datasetAtCheck, job, tableAtCall, loads>>
    /\ UNCHANGED gvars

\* lines 104-118: client.load_table_from_dataframe(df, full_table_id, job_config)
Submit ==
    /\ lpc = "submit"
    /\ calls' = Append(calls, "load_table_from_dataframe")
    /\ \/ /\ job' = ldf.rows
          /\ lpc' = "wait"
          /\ UNCHANGED <<result, propagated, failedStep>>
       \/ /\ \E kind \in ExceptionKinds : Raise("load_table_from_dataframe", kind)
          /\ UNCHANGED job
    /\ UNCHANGED <<csv, ldf, warnings, bq, datasetAtCheck, tableAtCall, loads>>
    /\ UNCHANGED gvars

\* lines 73-76: the job loads a frame only if every REQUIRED field is there
\* and has no null
Loadable(frame) ==
    /\ RequiredFields \subseteq frame.columns
    /\ \A c \in RequiredFields : frame.nulls[c] = 0

\* WRITE_APPEND: the rows are added to those of the table
LoadTableAppend(table, rows) == (IF table < 0 THEN 0 ELSE table) + rows

\* line 106: WRITE_TRUNCATE replaces the rows of the table
LoadTable(table, rows) == rows

\* line 122: load_job.result()
WaitJob ==
    /\ lpc = "wait"
    /\ calls' = Append(calls, "result")
    /\ \/ /\ Loadable(ldf)
          /\ bq' = [bq EXCEPT !.table = LoadTable(bq.table, job)]
          /\ lpc' = "get_table"
          /\ UNCHANGED <<result, propagated, failedStep>>
       \/ /\ \E kind \in ExceptionKinds : Raise("result", kind)
          /\ UNCHANGED bq
    /\ UNCHANGED <<csv, ldf, warnings, datasetAtCheck, job, tableAtCall, loads>>
    /\ UNCHANGED gvars

\* lines 125-131: client.get_table, then return True
GetTable ==
    /\ lpc = "get_table"
    /\ calls' = Append(calls, "get_table")
    /\ \/ /\ result' = "True"
          /\ lpc' = "returned"
          /\ UNCHANGED <<propagated, failedStep>>
       \/ \E kind \in ExceptionKinds : Raise("get_table", kind)
    /\ UNCHANGED <<csv, ldf, warnings, bq, datasetAtCheck, job, tableAtCall, loads>>
    /\ UNCHANGED gvars

(***************************************************************************)
(* The loader's specification.                                             *)
(***************************************************************************)
GenIdle ==
    /\ pc = "idle"
    /\ num_rows = 0
    /\ start_date = 0
    /\ end_date = 0
    /\ customer_ids = <<>>
    /\ customer_type_map = <<>>
    /\ customer_plan_map = <<>>
    /\ timestamps = <<>>
    /\ data = <<>>
    /\ df = <<>>
    /\ failed_indices = <<>>
    /\ fpos = 1
    /\ varied = 0

LoadInit ==
    /\ lpc = "idle"
    /\ csv = NoFile
    /\ ldf = NoFrame
    /\ warnings = {}
    /\ bq \in Warehouses
    /\ calls = <<>>
    /\ datasetAtCheck = "none"
    /\ job = NoJob
    /\ result = "none"
    /\ propagated = "none"
    /\ failedStep = "none"
    /\ tableAtCall = NoTable
    /\ loads = 0

InitLoad == LoadInit /\ GenIdle

NextLoad ==
    \/ LoadCall
    \/ CheckFile
    \/ ReadCsv
    \/ Validate
    \/ ParseTimestamp
    \/ InitClient
    \/ GetDataset
    \/ CreateDataset
    \/ Submit
    \/ WaitJob
    \/ GetTable

SpecLoad == InitLoad /\ [][NextLoad]_vars

(***************************************************************************)
(* Properties of the generator (checked under Spec).                       *)
(***************************************************************************)
HasPrefix(id, p) == Len(id) >= Len(p) /\ SubSeq(id, 1, Len(p)) = p
\* the part of a first-pass id after its four-character prefix
SuffixOf(id) == SubSeq(id, Len(REV) + 1, Len(id))
\* the rows of the frame that are not rows of the first pass
IsRetryRow(r) == r \notin Range(data)
RetryPositions == {j \in DOMAIN df : IsRetryRow(df[j])}
FailedPositions == {j \in DOMAIN data : data[j].payment_status = "Failed"}
\* the random suffixes of the first pass are pairwise distinct
SuffixesDistinct ==
    \A i, j \in DOMAIN data :
        i # j => SuffixOf(data[i].transaction_id) # SuffixOf(data[j].transaction_id)

\* C1: a completed call returns exactly num_rows rows, whatever the number of
\* Failed rows and of retry rows appended.
C1_RowCount == pc = "done" => Len(df) = num_rows

\* C1 witness: a completed call whose output holds a retry row, so that the
\* frame was longer than num_rows and was downsampled.
C1_Witness ==
    /\ pc = "done"
    /\ FailedPositions # {}
    /\ RetryPositions # {}
    /\ Len(df) = num_rows

\* C2: two rows of the frame (first-pass rows and retry rows, before and after
\* the downsampling) with the same customer_id have the same customer_type
\* and the same subscription_plan.
C2_CustomerConsistent ==
    \A i, j \in DOMAIN df :
        df[i].customer_id = df[j].customer_id =>
            /\ df[i].customer_type = df[j].customer_type
            /\ df[i].subscription_plan = df[j].subscription_plan

\* C2 witness: a final output with a retry row and a first-pass row of one
\* customer, and a row of another customer of another type.
C2_Witness ==
    /\ pc = "done"
    /\ \E i, j, k \in DOMAIN df :
          /\ IsRetryRow(df[i]) /\ ~IsRetryRow(df[j])
          /\ df[i].customer_id = df[j].customer_id
          /\ df[k].customer_id # df[i].customer_id
          /\ df[k].customer_type # df[i].customer_type

\* C3 (as claimed): every Refund row has a strictly negative amount.
C3_RefundNegative ==
    \A j \in DOMAIN data :
        data[j].transaction_type = "Refund" => data[j].amount < 0

\* C7: in the final output the transaction ids are pairwise distinct if the
\* random suffixes of the first pass are; a first-pass row has prefix REV_
\* exactly when its category is Revenue and EXP_ otherwise; a retry row has
\* prefix RETRY_ followed by the suffix of a Failed row of the first pass.
C7_TransactionIds ==
    pc = "done" =>
        /\ SuffixesDistinct =>
              \A i, j \in DOMAIN df : i # j => df[i].transaction_id # df[j].transaction_id
        /\ \A j \in DOMAIN df :
              IF IsRetryRow(df[j])
              THEN \E f \in FailedPositions :
                      df[j].transaction_id = RETRY \o SuffixOf(data[f].transaction_id)
              ELSE /\ HasPrefix(df[j].transaction_id, REV) <=> df[j].category = "Revenue"
                   /\ HasPrefix(df[j].transaction_id, EXP) <=> df[j].category # "Revenue"
                   /\ ~HasPrefix(df[j].transaction_id, RETRY)

\* C7 witness: a final output that holds a retry row together with the Failed
\* row it was copied from, the suffixes being distinct.
C7_Witness ==
    /\ pc = "done"
    /\ SuffixesDistinct
    /\ \E i, j \in DOMAIN df :
          /\ IsRetryRow(df[i]) /\ ~IsRetryRow(df[j])
          /\ df[j].payment_status = "Failed"
          /\ df[i].transaction_id = RETRY \o SuffixOf(df[j].transaction_id)

\* C8: the timestamps of the returned table are non-decreasing in row order.
C8_Sorted ==
    pc = "done" =>
        \A j \in DOMAIN df : j < Len(df) => df[j].timestamp <= df[j + 1].timestamp

\* C8 witness: a downsampled output (it holds a retry row) of a first pass
\* whose rows are of more than one timestamp.
C8_Witness ==
    /\ pc = "done"
    /\ \E j \in DOMAIN df : IsRetryRow(df[j])
    /\ \E i, j \in DOMAIN df : df[i].timestamp < df[j].timestamp
    /\ Len(df) = Len(data)

\* C9: a retry row is the copy of a Failed row of the first pass, Completed,
\* 1 to 7 whole days later and not later than end_date, under the id RETRY_ +
\* suffix; the first-pass rows stay as they are at the head of the frame, at
\* most one retry row is appended per Failed row handled, and the retry rows
\* have distinct ids when the suffixes are distinct.
C9_Retry ==
    /\ \A j \in RetryPositions :
          /\ df[j].timestamp <= EndInstant
          /\ \E f \in FailedPositions : \E k \in 1..7 :
                df[j] = [data[f] EXCEPT
                           !.timestamp = data[f].timestamp + k * SecondsPerDay,
                           !.payment_status = "Completed",
                           !.transaction_id = RETRY \o SuffixOf(data[f].transaction_id)]
    /\ pc = "retry" =>
          /\ SubSeq(df, 1, Len(data)) = data
          /\ RetryPositions = Len(data) + 1 .. Len(df)
          /\ Len(df) - Len(data) <= fpos - 1
          /\ fpos - 1 <= Cardinality(FailedPositions)
    /\ Cardinality(RetryPositions) <= Cardinality(FailedPositions)
    /\ SuffixesDistinct =>
          \A i, j \in RetryPositions :
              i # j => df[i].transaction_id # df[j].transaction_id

\* C9 witness: the retry loop is over, one Failed row got its retry row and the
\* frame is not yet downsampled.
C9_Witness ==
    /\ pc = "retry"
    /\ fpos > Len(failed_indices)
    /\ FailedPositions # {}
    /\ Len(df) = Len(data) + Cardinality(FailedPositions)

(***************************************************************************)
(* Properties of the loader (checked under SpecLoad).                      *)
(***************************************************************************)
Called(c) == \E j \in DOMAIN calls : calls[j] = c
Submitted == Called("load_table_from_dataframe")

\* C4: no exception leaves load_data_to_bigquery; it returns False when the
\* file does not exist or a step raised, and True only when every step up to
\* and including the table re-fetch succeeded.
C4_NoPropagation ==
    /\ lpc # "propagated"
    /\ propagated = "none"
    /\ lpc = "returned" =>
          /\ result \in {"True", "False"}
          /\ ~csv.exists => result = "False"
          /\ failedStep # "none" => result = "False"
          /\ result = "True" =>
                /\ csv.exists
                /\ failedStep = "none"
                /\ Called("get_dataset") /\ Submitted /\ Called("result")
                /\ Called("get_table")

\* C4 witness: a call that created the dataset, submitted the job and returned
\* False because the wait for the job raised.
C4_Witness ==
    /\ lpc = "returned"
    /\ result = "False"
    /\ failedStep = "result"
    /\ Called("create_dataset")

\* C5: when the file exists and no step raised, the call returns True and the
\* destination table holds exactly the rows of the CSV, whatever it held.
C5_RowCount ==
    (lpc = "returned" /\ csv.exists /\ failedStep = "none") =>
        /\ result = "True"
        /\ bq.table = csv.rows

\* C5 witness: a second successful load into a table that held another number
\* of rows.
C5_Witness ==
    /\ lpc = "returned"
    /\ result = "True"
    /\ loads >= 2
    /\ tableAtCall >= 0
    /\ tableAtCall # csv.rows
    /\ csv.rows > 0
    /\ bq.table = csv.rows

\* C6 (as claimed): when the load job is submitted, every critical column the
\* CSV lacks has been reported by the validation step.
C6_AbsenceDetected ==
    Submitted => \A c \in Range(critical_columns) : c \notin ldf.columns => c \in warnings

\* C6 (amended): the validation step, which precedes the submission, logs a
\* warning for exactly the critical columns that are in the frame and hold a
\* null; a critical column the frame lacks is never reported.
C6_NullsOnly ==
    /\ lpc \in {"idle", "check_file", "read", "validate"} => warnings = {} /\ ~Submitted
    /\ lpc \in {"parse_timestamp", "client", "get_dataset", "create_dataset", "submit",
                "wait", "get_table"} =>
          warnings = {c \in Range(critical_columns) \cap ldf.columns : ldf.nulls[c] > 0}
    /\ Submitted =>
          warnings = {c \in Range(critical_columns) \cap ldf.columns : ldf.nulls[c] > 0}

\* C6 witness: the load job was submitted for a frame that lacks a critical
\* column and holds a null in another, which alone was reported.
C6_Witness ==
    /\ Submitted
    /\ job >= 0
    /\ \E c \in Range(critical_columns) : c \notin ldf.columns
    /\ warnings # {}

\* C10 (as claimed): the dataset exists when the load job is submitted;
\* create_dataset is called when and only when the dataset is absent; after a
\* failed creation no load job is submitted.
C10_DatasetEnsured ==
    /\ Submitted => bq.dataset
    /\ Called("create_dataset") => datasetAtCheck = "absent"
    /\ (datasetAtCheck = "absent" /\ lpc \notin {"get_dataset", "create_dataset"}
          /\ Called("get_dataset")) => Called("create_dataset")
    /\ failedStep = "create_dataset" => ~Submitted

====
